---- MODULE Spec2Model ----
(***************************************************************************)
(* Model of AER::Noise::UnitaryError (src/src/noise/unitary_error.hpp):    *)
(* a mixed unitary error channel with its configuration setters and its    *)
(* sampling routine.                                                        *)
(*                                                                         *)
(* Probabilities are doubles in the source, and set_probabilities decides  *)
(* by the sign of a difference of doubles.  The model keeps the rounding:  *)
(* a real is a binary floating-point number with Bits significant bits     *)
(* (a double has 53), written as the integer count of the format's         *)
(* smallest spacing below 1/2, and every subtraction, addition and         *)
(* division rounds to nearest, ties to even.  NaN and infinities are       *)
(* outside the model.                                                      *)
(***************************************************************************)
EXTENDS Integers, Sequences, FiniteSets, TLC

\* ------------------------------------------------------------------ bounds
\* Significant bits of the floating-point format.
Bits == 2
\* Longest probability vector in the runs of the whole channel.
MaxProbs == 2
\* Longest probability vector in the runs of set_probabilities alone.
MaxVector == 3
\* Number of qubits of the simulated register.
NumQubits == 2
\* Number of shot workers sampling concurrently.
NumWorkers == 2
\* Shots each worker samples in the concurrent specification.
MaxShots == 2
\* Number of states of an RngEngine.
RngStates == 2

\* ---------------------------------------------------------- floating point
RECURSIVE Pow2(_)
Pow2(n) == IF n = 0 THEN 1 ELSE 2 * Pow2(n - 1)

\* The value 1.0.
One == Pow2(Bits + 1)
Half == One \div 2

\* The spacing of the format's numbers around the magnitude a.
RECURSIVE Spacing(_)
Spacing(a) == IF a < Pow2(Bits) THEN 1 ELSE 2 * Spacing(a \div 2)

\* The format's number nearest to the rational n/d (n >= 0, d > 0), ties to
\* the even significand.
RoundRatio(n, d) ==
  LET f  == n \div d
      sp == Spacing(f)
      lo == (f \div sp) * sp
      hi == lo + sp
  IN IF 2 * n < (lo + hi) * d THEN lo
     ELSE IF 2 * n > (lo + hi) * d THEN hi
     ELSE IF (lo \div sp) % 2 = 0 THEN lo ELSE hi

\* The format's number nearest to the integer x.
Round(x) == IF x >= 0 THEN RoundRatio(x, 1) ELSE 0 - RoundRatio(0 - x, 1)

\* double - double, double + double, double / double.
fl_sub(a, b) == Round(a - b)
fl_add(a, b) == Round(a + b)
fl_div(a, b) ==
  IF a >= 0 THEN RoundRatio(a * One, b) ELSE 0 - RoundRatio((0 - a) * One, b)

\* std::accumulate over doubles, from 0.0.
RECURSIVE fl_sum(_)
fl_sum(s) == IF s = <<>> THEN 0 ELSE fl_add(fl_sum(SubSeq(s, 1, Len(s) - 1)), s[Len(s)])

\* ------------------------------------------------------------------ inputs
SeqsUpTo(S, n) == UNION {[1..k -> S] : k \in 0..n}
\* The doubles from just below 0 to just above 1.
Doubles == {x \in (0 - 1)..(One + Spacing(One)) : Round(x) = x}
\* The vectors set_probabilities is run on alone.
DoubleVectors == SeqsUpTo(Doubles, MaxVector)
\* The vectors the whole channel is run on: entries -1/2, 0, 1/2, 1, 3/2.
ProbValues == {0 - Half, 0, Half, One, One + Half}
ProbVectors == SeqsUpTo(ProbValues, MaxProbs)
\* cmatrix_t values are opaque to the channel.
Matrices == {"X", "Z"}
\* The lists passed to set_unitaries: the matrices of a channel, each at most
\* once, in any order.
MatLists ==
  {m \in SeqsUpTo(Matrices, Cardinality(Matrices)) :
     \A i, j \in 1..Len(m) : i # j => m[i] # m[j]}
Qubits == 0..(NumQubits - 1)
\* reg_t arguments: one- and two-qubit targets, in either order.
QubitLists == {<<p>> : p \in Qubits} \cup {<<p, q>> : p, q \in Qubits}
Workers == 1..NumWorkers
\* The thread that configures the channel and samples in the sequential runs.
MainWorker == CHOOSE w \in Workers : \A v \in Workers : w <= v
\* The qubits worker w's gate acts on in the concurrent runs.
QubitsOf(w) == <<(w - 1) % NumQubits>>

\* The sum of a sequence as a real number, without rounding.
RECURSIVE Sum(_)
Sum(s) == IF s = <<>> THEN 0 ELSE Head(s) + Sum(Tail(s))

\* ------------------------------------------------------------------- state
VARIABLES
  this,     \* the UnitaryError object: probabilities_, unitaries_,
            \* errors_after_op_, combine_error_
  rng,      \* rng[w]: the state of worker w's RngEngine
  seed,     \* seed[w]: the state worker w's RngEngine was seeded with
  pc,       \* pc[w]: where worker w is inside sample_noise
  r,        \* r[w]: the local `r` of worker w's sample_noise call
  shots,    \* shots[w]: what worker w's concurrent calls returned so far
  call      \* the call the caller has just made: operation, arguments, outcome

locals == <<pc, r, shots>>
vars == <<this, rng, seed, pc, r, shots, call>>

\* The outcome of a call: how it ended and, for sample_noise, the NoiseOps.
Returned(ops) == [status |-> "ok", ops |-> ops]
Thrown == [status |-> "invalid_argument", ops |-> <<>>]

Call(op, w, probs, mats, val, qubits, drawn, outcome) ==
  [op |-> op, w |-> w, probs |-> probs, mats |-> mats, val |-> val,
   qubits |-> qubits, r |-> drawn, status |-> outcome.status, ops |-> outcome.ops]
NoCall == Call("none", MainWorker, <<>>, <<>>, FALSE, <<>>, 0, Returned(<<>>))

\* ------------------------------------------------------- library behaviour
\* std::discrete_distribution(first, last): each weight divided by the sum of
\* the weights.  The standard requires a positive sum.
discrete_distribution(weights) ==
  LET total == fl_sum(weights)
  IN IF total <= 0 THEN weights
     ELSE [i \in 1..Len(weights) |-> fl_div(weights[i], total)]

\* A default-constructed std::discrete_distribution: one outcome, weight 1.
default_distribution == <<One>>

\* The probability of an outcome below i.
Cumulative(dist, i) == fl_sum(SubSeq(dist, 1, i))

\* RngEngine: state s yields a uniform variate in [0,1) and then steps to its
\* next state.
Uniform(s) == (s * One) \div RngStates
NextRng(s) == (s + 1) % RngStates

\* RngEngine::rand_int(dist): the outcome i, counted from 0, with
\* Cumulative(i) <= u < Cumulative(i+1); never past the last outcome.
rand_int(dist, s) ==
  Cardinality({i \in 1..(Len(dist) - 1) : Cumulative(dist, i) <= Uniform(s)})

\* ------------------------------------------------------------- the methods
\* Each method is a function of the object (and the caller's RngEngine) to the
\* object after the call and the call's outcome.

\* The object as its in-class initialisers leave it.
UnitaryError ==
  [probabilities_   |-> default_distribution,
   unitaries_       |-> <<>>,
   errors_after_op_ |-> TRUE,
   combine_error_   |-> TRUE]

\* The loop with the identity weight left at 1 (the subtraction forgotten).
RECURSIVE set_probabilities_loop_keeps_identity(_, _, _)
set_probabilities_loop_keeps_identity(probs, i, acc) ==
  IF i > Len(probs) THEN acc
  ELSE set_probabilities_loop_keeps_identity(probs, i + 1,
         [valid |-> acc.valid /\ ~(probs[i] < 0 \/ probs[i] > One),
          pwi   |-> Append(acc.pwi, probs[i])])

\* The loop of set_probabilities over probs[i..]: acc.valid is probs_valid,
\* acc.pwi is probs_with_identity.
RECURSIVE set_probabilities_loop(_, _, _)
set_probabilities_loop(probs, i, acc) ==
  IF i > Len(probs) THEN acc
  ELSE set_probabilities_loop(probs, i + 1,
         [valid |-> acc.valid /\ ~(probs[i] < 0 \/ probs[i] > One),
          pwi   |-> Append([acc.pwi EXCEPT ![1] = fl_sub(@, probs[i])], probs[i])])

\* The throw condition without probs_valid: only the identity weight is tested.
set_probabilities_throws_identity_only(acc) ==
  acc.pwi[1] > One \/ acc.pwi[1] < 0

\* The throw condition of set_probabilities.
set_probabilities_throws(acc) ==
  acc.pwi[1] > One \/ acc.pwi[1] < 0 \/ ~acc.valid

\* set_probabilities with the assignment moved above the test.
UnitaryError_set_probabilities_assigns_first(ch, probs) ==
  LET acc == set_probabilities_loop(probs, 1, [valid |-> TRUE, pwi |-> <<One>>])
  IN [this |-> [ch EXCEPT !.probabilities_ = discrete_distribution(acc.pwi)],
      outcome |-> IF set_probabilities_throws(acc) THEN Thrown ELSE Returned(<<>>)]

UnitaryError_set_probabilities(ch, probs) ==
  LET acc == set_probabilities_loop(probs, 1, [valid |-> TRUE, pwi |-> <<One>>])
  IN IF set_probabilities_throws(acc)
     THEN [this |-> ch, outcome |-> Thrown]
     ELSE [this |-> [ch EXCEPT !.probabilities_ = discrete_distribution(acc.pwi)],
           outcome |-> Returned(<<>>)]

\* set_unitaries copying one matrix too few.
UnitaryError_set_unitaries_short(ch, mats) ==
  [this |-> [ch EXCEPT !.unitaries_ = SubSeq(mats, 1, Len(mats) - 1)],
   outcome |-> Returned(<<>>)]

\* set_unitaries also resetting the distribution to the default one.
UnitaryError_set_unitaries_resets(ch, mats) ==
  [this |-> [ch EXCEPT !.unitaries_ = mats, !.probabilities_ = default_distribution],
   outcome |-> Returned(<<>>)]

UnitaryError_set_unitaries(ch, mats) ==
  [this |-> [ch EXCEPT !.unitaries_ = mats], outcome |-> Returned(<<>>)]

UnitaryError_set_errors_after(ch) ==
  [this |-> [ch EXCEPT !.errors_after_op_ = TRUE], outcome |-> Returned(<<>>)]

\* set_errors_before writing the other flag.
UnitaryError_set_errors_before_other_flag(ch) ==
  [this |-> [ch EXCEPT !.combine_error_ = FALSE], outcome |-> Returned(<<>>)]

UnitaryError_set_errors_before(ch) ==
  [this |-> [ch EXCEPT !.errors_after_op_ = FALSE], outcome |-> Returned(<<>>)]

UnitaryError_combine_error(ch, val) ==
  [this |-> [ch EXCEPT !.combine_error_ = val], outcome |-> Returned(<<>>)]

\* sample_noise always taking the first matrix.
sample_noise_result_first_matrix(drawn, qubits, unitaries) ==
  IF drawn = 0 THEN Returned(<<>>)
  ELSE IF drawn > Len(unitaries) THEN Thrown
  ELSE IF unitaries = <<>> THEN Thrown
  ELSE Returned(<<[name |-> "mat", mats |-> <<unitaries[1]>>, qubits |-> qubits]>>)

\* sample_noise returning no error where it should throw.
sample_noise_result_swallows(drawn, qubits, unitaries) ==
  IF drawn = 0 THEN Returned(<<>>)
  ELSE IF drawn > Len(unitaries) THEN Returned(<<>>)
  ELSE IF unitaries = <<>> THEN Returned(<<>>)
  ELSE Returned(<<[name |-> "mat", mats |-> <<unitaries[drawn]>>, qubits |-> qubits]>>)

\* What sample_noise returns or throws once r is drawn.
sample_noise_result(drawn, qubits, unitaries) ==
  IF drawn = 0 THEN Returned(<<>>)
  ELSE IF drawn > Len(unitaries) THEN Thrown
  ELSE IF unitaries = <<>> THEN Thrown
  ELSE Returned(<<[name |-> "mat", mats |-> <<unitaries[drawn]>>, qubits |-> qubits]>>)

\* sample_noise moving the sampled matrix out of unitaries_ instead of copying
\* it: the list is left without it.
UnitaryError_sample_noise_moves(ch, s, qubits) ==
  LET drawn == rand_int(ch.probabilities_, s)
      left == IF drawn \in 1..Len(ch.unitaries_)
              THEN SubSeq(ch.unitaries_, 1, drawn - 1)
                     \o SubSeq(ch.unitaries_, drawn + 1, Len(ch.unitaries_))
              ELSE ch.unitaries_
  IN [this |-> [ch EXCEPT !.unitaries_ = left], rng |-> NextRng(s), r |-> drawn,
      outcome |-> sample_noise_result(drawn, qubits, ch.unitaries_)]

\* s is the state of the RngEngine passed in.
UnitaryError_sample_noise(ch, s, qubits) ==
  LET drawn == rand_int(ch.probabilities_, s)
  IN [this |-> ch, rng |-> NextRng(s), r |-> drawn,
      outcome |-> sample_noise_result(drawn, qubits, ch.unitaries_)]

\* ------------------------------------------------- calls, one at a time
\* The caller makes a call when it has taken the outcome of the previous one
\* and no worker is inside sample_noise: calls do not overlap.
Ready == call.op = "none" /\ \A w \in Workers : pc[w] = "idle"

\* Each call draws its argument from the set of inputs under consideration.
set_probabilities(inputs) ==
  /\ Ready
  /\ \E probs \in inputs :
       LET c == UnitaryError_set_probabilities(this, probs)
       IN /\ this' = c.this
          /\ call' = Call("set_probabilities", MainWorker, probs, <<>>, FALSE, <<>>, 0, c.outcome)
  /\ UNCHANGED <<rng, seed, locals>>

set_unitaries(inputs) ==
  /\ Ready
  /\ \E mats \in inputs :
       LET c == UnitaryError_set_unitaries(this, mats)
       IN /\ this' = c.this
          /\ call' = Call("set_unitaries", MainWorker, <<>>, mats, FALSE, <<>>, 0, c.outcome)
  /\ UNCHANGED <<rng, seed, locals>>

set_errors_after ==
  /\ Ready
  /\ LET c == UnitaryError_set_errors_after(this)
     IN /\ this' = c.this
        /\ call' = Call("set_errors_after", MainWorker, <<>>, <<>>, FALSE, <<>>, 0, c.outcome)
  /\ UNCHANGED <<rng, seed, locals>>

set_errors_before ==
  /\ Ready
  /\ LET c == UnitaryError_set_errors_before(this)
     IN /\ this' = c.this
        /\ call' = Call("set_errors_before", MainWorker, <<>>, <<>>, FALSE, <<>>, 0, c.outcome)
  /\ UNCHANGED <<rng, seed, locals>>

combine_error(inputs) ==
  /\ Ready
  /\ \E val \in inputs :
       LET c == UnitaryError_combine_error(this, val)
       IN /\ this' = c.this
          /\ call' = Call("combine_error", MainWorker, <<>>, <<>>, val, <<>>, 0, c.outcome)
  /\ UNCHANGED <<rng, seed, locals>>

\* One whole call of sample_noise by worker w.
sample_noise(w, inputs) ==
  /\ Ready
  /\ \E qubits \in inputs :
       LET c == UnitaryError_sample_noise(this, rng[w], qubits)
       IN /\ this' = c.this
          /\ rng' = [rng EXCEPT ![w] = c.rng]
          /\ call' = Call("sample_noise", w, <<>>, <<>>, FALSE, qubits, c.r, c.outcome)
  /\ UNCHANGED <<seed, locals>>

\* The caller takes the outcome; the object keeps no trace of the call.
Return ==
  /\ call.op # "none"
  /\ call' = NoCall
  /\ UNCHANGED <<this, rng, seed, locals>>

\* ------------------------------------------------------- the specification
Init ==
  /\ this = UnitaryError
  /\ seed = [w \in Workers |-> 0]
  /\ rng = seed
  /\ pc = [w \in Workers |-> "idle"]
  /\ r = [w \in Workers |-> 0]
  /\ shots = [w \in Workers |-> <<>>]
  /\ call = NoCall

Next ==
  \/ set_probabilities(ProbVectors)
  \/ set_unitaries(MatLists)
  \/ set_errors_after
  \/ set_errors_before
  \/ combine_error(BOOLEAN)
  \/ sample_noise(MainWorker, QubitLists)
  \/ Return

Spec == Init /\ [][Next]_vars

\* ------------------------------------------- concurrent sampling by shots
\* sample_noise in the steps other workers can interleave with: the draw
\* (line 85) and everything after it.
\* The draw taken from one RngEngine shared by all workers.
sample_noise_draw_shared_rng(w) ==
  /\ pc[w] = "idle"
  /\ Len(shots[w]) < MaxShots
  /\ r' = [r EXCEPT ![w] = rand_int(this.probabilities_, rng[MainWorker])]
  /\ rng' = [rng EXCEPT ![MainWorker] = NextRng(rng[MainWorker])]
  /\ pc' = [pc EXCEPT ![w] = "drawn"]
  /\ UNCHANGED <<this, seed, shots, call>>

sample_noise_draw(w) ==
  /\ pc[w] = "idle"
  /\ Len(shots[w]) < MaxShots
  /\ r' = [r EXCEPT ![w] = rand_int(this.probabilities_, rng[w])]
  /\ rng' = [rng EXCEPT ![w] = NextRng(rng[w])]
  /\ pc' = [pc EXCEPT ![w] = "drawn"]
  /\ UNCHANGED <<this, seed, shots, call>>

sample_noise_return(w) ==
  /\ pc[w] = "drawn"
  /\ shots' = [shots EXCEPT ![w] =
                 Append(@, sample_noise_result(r[w], QubitsOf(w), this.unitaries_))]
  /\ pc' = [pc EXCEPT ![w] = "idle"]
  /\ UNCHANGED <<this, rng, seed, r, call>>

\* The configurations set_probabilities and set_unitaries can leave a new
\* object in.
ValidProbVectors ==
  {p \in ProbVectors : UnitaryError_set_probabilities(UnitaryError, p).outcome = Returned(<<>>)}
Configured ==
  {UnitaryError_set_unitaries(UnitaryError_set_probabilities(UnitaryError, p).this, m).this :
     p \in ValidProbVectors, m \in MatLists}

\* The channel is configured before the shots start; every worker has its own
\* RngEngine, seeded on its own.
InitShots ==
  /\ this \in Configured
  /\ seed \in [Workers -> 0..(RngStates - 1)]
  /\ rng = seed
  /\ pc = [w \in Workers |-> "idle"]
  /\ r = [w \in Workers |-> 0]
  /\ shots = [w \in Workers |-> <<>>]
  /\ call = NoCall

NextShots ==
  \/ \E w \in Workers : sample_noise_draw(w)
  \/ \E w \in Workers : sample_noise_return(w)

SpecShots == InitShots /\ [][NextShots]_vars

\* --------------------------------------------------- set_probabilities alone
\* One call of set_probabilities, on a new channel or on a configured one
\* whose outcomes all select a matrix, with any vector of doubles.
PriorChannels ==
  {UnitaryError} \cup
  {c \in Configured : /\ Len(c.unitaries_) = Cardinality(Matrices)
                      /\ Len(c.probabilities_) = Len(c.unitaries_) + 1
                      /\ c.probabilities_[1] = 0}

InitVectors ==
  /\ this \in PriorChannels
  /\ seed = [w \in Workers |-> 0]
  /\ rng = seed
  /\ pc = [w \in Workers |-> "idle"]
  /\ r = [w \in Workers |-> 0]
  /\ shots = [w \in Workers |-> <<>>]
  /\ call = NoCall

NextVectors == set_probabilities(DoubleVectors)

SpecVectors == InitVectors /\ [][NextVectors]_vars

\* ------------------------------------------------------------------ claims
\* What the claims call a probability vector's entries being in [0,1].
InRange(p) == \A i \in 1..Len(p) : 0 <= p[i] /\ p[i] <= One
IsSetProbabilities == call.op = "set_probabilities"
IsSampleNoise == call.op = "sample_noise"
LengthsMatch == Len(this.probabilities_) = Len(this.unitaries_) + 1

\* Half the spacing of the doubles in [1/2, 1): the most one subtraction that
\* ends in [-1, 1] is off by (2^-54 for a double).
HalfSpacing == Spacing(Half) \div 2
Abs(x) == IF x < 0 THEN 0 - x ELSE x

C2_Tolerance(n) == (n + 1) * Spacing(Half)
C2_ValidAccepted ==
  (IsSetProbabilities /\ InRange(call.probs) /\ Sum(call.probs) <= One)
    => /\ call.status = "ok"
       /\ Len(this.probabilities_) = Len(call.probs) + 1
       /\ \A i \in 1..Len(this.probabilities_) :
            Abs(this.probabilities_[i] - (<<One - Sum(call.probs)>> \o call.probs)[i])
              <= C2_Tolerance(Len(call.probs))

\* C3, as claimed: after any successful set_probabilities or set_unitaries
\* call the distribution has one outcome more than there are matrices.
C3_LengthsAlwaysMatch ==
  (call.op \in {"set_probabilities", "set_unitaries"} /\ call.status = "ok")
    => LengthsMatch

\* C3, amended: a new channel has one outcome and no matrix; a successful
\* set_probabilities(probs) leaves Len(probs)+1 outcomes, set_unitaries(mats)
\* leaves Len(mats) matrices, neither looks at the other attribute, and no
\* other call changes either length.  So after a setter call the lengths match
\* exactly when the argument is as long as the other attribute needs.
C3_LengthsMatchIffArgumentsDo ==
  /\ LengthsMatch
  /\ [](/\ (IsSetProbabilities /\ call.status = "ok")
              => (LengthsMatch <=> Len(call.probs) = Len(this.unitaries_))
        /\ call.op = "set_unitaries"
              => (LengthsMatch <=> Len(call.mats) + 1 = Len(this.probabilities_)))
  /\ [][call'.op \notin {"set_probabilities", "set_unitaries"}
          => /\ Len(this'.probabilities_) = Len(this.probabilities_)
             /\ Len(this'.unitaries_) = Len(this.unitaries_)]_vars

\* set_unitaries stored as many matrices as the distribution set before needs.
C3_Witness ==
  /\ call.op = "set_unitaries" /\ Len(call.mats) > 1
  /\ Len(this.probabilities_) = Len(call.mats) + 1
  /\ LengthsMatch

\* C4: a sample_noise call that does not throw returns nothing when r = 0 and
\* otherwise exactly one operation, named "mat", with the one matrix
\* unitaries_[r-1] and the qubits it was called with, in their order.
C4_SampleReturnsAtMostOneOp ==
  (IsSampleNoise /\ call.status = "ok")
    => /\ Len(call.ops) <= 1
       /\ call.r = 0 => call.ops = <<>>
       /\ call.r # 0 =>
            /\ Len(call.ops) = 1
            /\ call.r \in 1..Len(this.unitaries_)
            /\ call.ops[1].name = "mat"
            /\ call.ops[1].mats = <<this.unitaries_[call.r]>>
            /\ call.ops[1].qubits = call.qubits

\* The second of two different matrices was returned for a two-qubit target
\* given in descending order.
C4_Witness ==
  /\ IsSampleNoise /\ call.status = "ok" /\ call.r = 2
  /\ Len(call.qubits) = 2 /\ call.qubits[1] > call.qubits[2]
  /\ this.unitaries_[1] # this.unitaries_[2]
  /\ Len(call.ops) = 1

\* C5: a sample_noise call that draws a non-zero index beyond the matrix list,
\* or a non-zero index with no matrix stored, throws and returns no operation;
\* with probs = [1.0] and no matrix, no call draws 0 and every call throws.
C5_InconsistentStateThrows ==
  /\ (IsSampleNoise /\ call.r # 0
        /\ (call.r > Len(this.unitaries_) \/ this.unitaries_ = <<>>))
       => (call.status = "invalid_argument" /\ call.ops = <<>>)
  /\ (IsSampleNoise /\ this.probabilities_ = <<0, One>> /\ this.unitaries_ = <<>>)
       => (call.r # 0 /\ call.status = "invalid_argument")

\* Sampling threw under probs = [1.0] with no matrix stored.
C5_Witness ==
  /\ IsSampleNoise
  /\ this.probabilities_ = <<0, One>> /\ this.unitaries_ = <<>>
  /\ call.status = "invalid_argument"

\* C6: a sample_noise call, whatever its outcome, leaves the channel as it
\* was; only the caller's RngEngine advances.
C6_SampleLeavesChannel ==
  [][call'.op = "sample_noise"
       => /\ this' = this
          /\ rng' = [rng EXCEPT ![call'.w] = NextRng(rng[call'.w])]]_vars

\* sample_noise threw on a channel that has matrices, and the caller's
\* RngEngine has moved on from its seed.
C6_Witness ==
  /\ IsSampleNoise /\ call.status = "invalid_argument"
  /\ this.unitaries_ # <<>>
  /\ rng[call.w] # seed[call.w]

\* C7: a new channel has both flags set; set_errors_after, set_errors_before
\* and combine_error change their own flag only and never throw; and what
\* sample_noise draws and returns does not depend on the flags.
C7_FlagSettersOnlySetFlags ==
  /\ (this.errors_after_op_ /\ this.combine_error_)
  /\ [][/\ call'.op = "set_errors_after"
             => /\ this' = [this EXCEPT !.errors_after_op_ = TRUE]
                /\ call'.status = "ok" /\ rng' = rng
        /\ call'.op = "set_errors_before"
             => /\ this' = [this EXCEPT !.errors_after_op_ = FALSE]
                /\ call'.status = "ok" /\ rng' = rng
        /\ call'.op = "combine_error"
             => /\ this' = [this EXCEPT !.combine_error_ = call'.val]
                /\ call'.status = "ok" /\ rng' = rng]_vars
  /\ [](call.op = "none" =>
          \A a, c \in BOOLEAN, q \in QubitLists :
            LET flagged == [this EXCEPT !.errors_after_op_ = a, !.combine_error_ = c]
                with == UnitaryError_sample_noise(flagged, rng[MainWorker], q)
                without == UnitaryError_sample_noise(this, rng[MainWorker], q)
            IN with.r = without.r /\ with.outcome = without.outcome)

\* combine_error(false) was called on a configured channel whose errors are
\* placed before the operation.
C7_Witness ==
  /\ call.op = "combine_error" /\ ~call.val
  /\ ~this.combine_error_ /\ ~this.errors_after_op_
  /\ this.unitaries_ # <<>>

\* C8: from every state, for every valid probs and every mats,
\* set_probabilities then set_unitaries leaves the channel set_unitaries then
\* set_probabilities leaves; each replaces its own attribute only; and a
\* repeated call changes nothing.
C8_ValidVectors == {p \in ProbVectors : InRange(p) /\ Sum(p) <= One}
C8_ConfigurationCommutes ==
  call.op = "none" =>
    \A p \in C8_ValidVectors, m \in MatLists :
      LET sp == UnitaryError_set_probabilities(this, p).this
          su == UnitaryError_set_unitaries(this, m).this
      IN /\ UnitaryError_set_unitaries(sp, m).this = UnitaryError_set_probabilities(su, p).this
         /\ su = [this EXCEPT !.unitaries_ = m]
         /\ sp.unitaries_ = this.unitaries_
         /\ sp.errors_after_op_ = this.errors_after_op_
         /\ sp.combine_error_ = this.combine_error_
         /\ UnitaryError_set_probabilities(sp, p).this = sp
         /\ UnitaryError_set_unitaries(su, m).this = su

\* Both setters have acted: matrices were stored on a channel whose
\* distribution had been set.
C8_Witness ==
  /\ call.op = "set_unitaries" /\ call.mats # <<>>
  /\ Len(this.probabilities_) > 1
  /\ this.unitaries_ = call.mats

\* C9: under every interleaving of workers that each hold their own
\* RngEngine, what a worker's calls have returned so far is what the same
\* number of calls returns when the worker runs alone from its seed, and the
\* channel is never modified.
RECURSIVE AloneShots(_, _, _, _)
AloneShots(ch, s, qubits, n) ==
  IF n = 0 THEN <<>>
  ELSE LET c == UnitaryError_sample_noise(ch, s, qubits)
       IN <<c.outcome>> \o AloneShots(c.this, c.rng, qubits, n - 1)

C9_ShotsReproducible ==
  /\ [](\A w \in Workers :
          shots[w] = AloneShots(this, seed[w], QubitsOf(w), Len(shots[w])))
  /\ [][this' = this]_vars

\* Every worker finished its shots; one was handed an operation and one a
\* failure.
C9_Witness ==
  /\ \A w \in Workers : Len(shots[w]) = MaxShots
  /\ \E w \in Workers : shots[w][1].ops # <<>>
  /\ \E w \in Workers : shots[w][MaxShots].status = "invalid_argument"

\* C10: a set_probabilities call that throws leaves the channel exactly as it
\* was (and the caller's RngEngine too).
C10_FailedSetProbabilitiesChangesNothing ==
  [][(call'.op = "set_probabilities" /\ call'.status = "invalid_argument")
       => (this' = this /\ rng' = rng)]_vars

\* A rejected vector, on a channel that had a distribution and matrices.
C10_Witness ==
  /\ IsSetProbabilities /\ call.status = "invalid_argument"
  /\ this.probabilities_ # default_distribution
  /\ this.unitaries_ # <<>>
  /\ ~InRange(call.probs)

====
